---- MODULE Spec2Model ----
(***************************************************************************)
(* dsdmona: a model of the session launch engine (src/src/lib.rs, xorg),   *)
(* of the readiness probe and display allocation (src/src/xdisplay.rs) and *)
(* of the last-session store (src/src/desktop.rs, src/src/user.rs).        *)
(*                                                                         *)
(* The engine is one main thread (pc) and one interrupt-forwarding thread  *)
(* (thread).  The environment decides the outcome of every fallible        *)
(* operating-system call, when the session process goes away and when a    *)
(* termination-class signal arrives.                                       *)
(***************************************************************************)
EXTENDS Integers, Sequences, FiniteSets, TLC

VARIABLES
    pc,          \* position of the main thread inside xorg() ("login": before it)
    result,      \* what xorg() returned: "none" | "Ok" | "Err"
    failedAt,    \* the step whose failure made xorg() take an error path
    locks,       \* display indices i for which /tmp/.X<i>-lock exists
    display,     \* the display index xorg() chose (NoDisplay before)
    authFile,    \* the authority file: "absent" | "exists"
    authCreated, \* history: std::fs::write(&xauthority, "") succeeded
    utilFailed,  \* history: utilities that exited with a failure status
    removeFailed,\* history: the final remove_file failed
    xorgLog,     \* history of the server process: spawn, kill, wait
    attempts,    \* failed XOpenDisplay attempts made by XDisplay::open
    slept,       \* history: milliseconds XDisplay::open spent in sleep
    xdisplay,    \* the client connection: "none" | "open" | "closed"
    xinit,       \* the session Child: "none" | "spawned" | "reaped"
    alive,       \* pids of the session's process group that exist
    signalled,   \* pids of the session's group that were sent SIGINT
    sigState,    \* "default" | "registered" | "closed"
    pending,     \* intercepted signals not yet seen by the iterator
    thread,      \* forwarding thread: "none" | "running" | "exited"
    sigArrived,  \* history: termination-class signals that arrived
    sigDefault,  \* history: ... that met the default disposition
    sigForwarded,\* history: ... that the thread forwarded with kill_process
    sigLost,     \* history: ... that were intercepted and then dropped
    \* ---- last-session store (desktop.rs) ----
    lsPc,        \* "idle" | "saved" | "loaded"
    lsNode,      \* what is at ~/.cache/dsdmona/last_session
    ruid,        \* real uid of the process
    fsuid,       \* filesystem uid of the process
    gid,         \* group id of the process
    entryId,     \* history: <<fsuid, gid>> on entry to set_last_session
    saveResult,  \* what set_last_session returned: "none" | "Ok" | "Err"
    savedDesk,   \* history: the desktop handed to set_last_session
    loaded,      \* what get_last_session returned
    \* ---- inputs of xorg() and the children it creates (lib.rs) ----
    user,        \* the account xorg() launches the session for
    children,    \* history: the child processes created, with their identity
    \* ---- select_desktop (lib.rs) ----
    selPc,       \* "idle" | "done"
    desktops,    \* Desktop::all(): the enumerated sessions, in order
    autoLogin,   \* config.auto_login_session: None or Some(string)
    lastDesktop, \* what get_last_desktop returned
    chosen,      \* the desktop select_desktop returned
    selBy,       \* "none" | "auto" | "interactive" | "error"
    \* ---- prepare_gui_command (lib.rs) ----
    guiPc,       \* "idle" | "prepared" | "spawned"
    guiIn,       \* the session command, the launch type, ~/.xinitrc exists
    guiOut,      \* the command prepared, or the error
    guiSpawn,    \* what Command::spawn was handed and came to
    \* ---- auth_password (auth.rs) ----
    authPc,      \* per run of auth_password: "idle" | "done"
    authIn,      \* per run: the candidate password and the account's shadow entry
    authOut,     \* per run: the value returned (or a panic) and what was printed
    \* ---- identity and shadow lookups (user.rs) ----
    luPc,        \* "idle" | "loop" | "done"
    luKind,      \* which lookup runs
    luBuf,       \* log2 of buf.len()
    luGrown,     \* history: log2 of every size the buffer was resized to
    luRets,      \* history: what each call of the backing function returned
    luOut,       \* what the lookup returned to its caller
    \* ---- login and select_user (lib.rs) ----
    loginPc,     \* position of the main thread inside login()
    prompts,     \* history: password prompts shown
    lastCheck,   \* the check of this turn of the loop: "none" | "true" | "false" | "err"
    verified,    \* history: accounts for which a check returned true
    loginResult  \* what login() returned: "none" | "Ok" | "Err"

engineVars == <<pc, result, failedAt, locks, display, authFile, authCreated,
                utilFailed, removeFailed, xorgLog, attempts, slept, xdisplay,
                xinit, alive, signalled, sigState, pending, thread, sigArrived,
                sigDefault, sigForwarded, sigLost, user, children>>

storeVars == <<lsPc, lsNode, ruid, fsuid, gid, entryId, saveResult, savedDesk,
               loaded>>

selVars == <<selPc, desktops, autoLogin, lastDesktop, chosen, selBy>>

guiVars == <<guiPc, guiIn, guiOut, guiSpawn>>

authVars == <<authPc, authIn, authOut>>

lookupVars == <<luPc, luKind, luBuf, luGrown, luRets, luOut>>

loginVars == <<loginPc, prompts, lastCheck, verified, loginResult>>

\* What no step of xorg() touches, and what no step of the store touches.
outsideEngine == <<storeVars, selVars, guiVars, authVars, lookupVars,
                   loginVars>>
outsideStore == <<engineVars, selVars, guiVars, authVars, lookupVars,
                  loginVars>>

vars == <<engineVars, storeVars, selVars, guiVars, authVars, lookupVars,
          loginVars>>

----------------------------------------------------------------------------
(* Bounds of the model *)

\* Termination-class signals the environment sends during one launch.
MaxSignals == 2

(* Program constants *)

\* for i in 0..32 (xdisplay.rs:14)
NumDisplays == 32
\* for _ in 0..50 (xdisplay.rs:26)
OpenAttempts == 50
\* std::thread::sleep(Duration::from_millis(50)) (xdisplay.rs:31)
OpenDelayMs == 50

NoDisplay == -1

\* Process ids.  The server, the session child (xinit.id()) and one more
\* process the session started inside its own process group.
XorgPid == 11
XinitPid == 12
HelperPid == 13
SessionPids == {XinitPid, HelperPid}
\* The process group of the session's processes.
SessionPgid == 12

----------------------------------------------------------------------------
(* xdisplay.rs *)

\* xdisplay.rs:14-19  the loop of find_free_xdisplay from index i on: the
\* first index whose lock file does not exist, NoDisplay past the last one.
RECURSIVE probe_from(_, _)
probe_from(i, lk) ==
    IF i >= NumDisplays THEN NoDisplay
    ELSE IF i \notin lk THEN i
    ELSE probe_from(i + 1, lk)

\* find_free_xdisplay as it would be if the probe began at index 1.
find_free_xdisplay_from_one(lk) == probe_from(1, lk)

\* xdisplay.rs:13-21  XDisplay::find_free_xdisplay
find_free_xdisplay(lk) == probe_from(0, lk)

----------------------------------------------------------------------------
(* lib.rs: process helpers *)

\* libc::kill(pid as i32, SIGINT): a positive pid names one process, a
\* negative one the process group -pid.  The set of processes signalled.
kill_process(pid) ==
    {p \in alive : IF pid > 0 THEN p = pid ELSE pid < -1 /\ SessionPgid = -pid}

\* libc::getpgid(pid): the group of an existing process, -1 (ESRCH) otherwise.
\* The polling loop takes a session child that has exited for gone, and so
\* does the model: SessionExit removes it from alive.
getpgid(pid) == IF pid \in alive THEN SessionPgid ELSE -1

\* exec_cmd as it would be without command.uid(..).gid(..): the child keeps
\* the identity of the engine's process.
exec_cmd_inheriting(kind, usr) ==
    [kind |-> kind, setid |-> FALSE, uid |-> ruid, gid |-> gid,
     env |-> "launch"]

\* lib.rs:259-270  exec_cmd: the child is created with the account's uid and
\* primary group, and with every variable of the Launch Environment set.
exec_cmd(kind, usr) ==
    [kind |-> kind, setid |-> TRUE, uid |-> usr.uid, gid |-> usr.primary_group,
     env |-> "launch"]

\* lib.rs:172-175  Command::new("/usr/bin/Xorg")...envs(std::env::vars()): no
\* uid or gid is set, so the server keeps the identity of the engine's
\* process, and it is given the engine's own environment.
xorg_command ==
    [kind |-> "Xorg", setid |-> FALSE, uid |-> ruid, gid |-> gid,
     env |-> "operator"]

----------------------------------------------------------------------------
(* lib.rs: xorg(), the main thread *)

Terminal == {"returned", "killed"}

\* An error return of xorg(): `?` or `bail!` at the step named.  Every local
\* is dropped, the XDisplay among them (xdisplay.rs:39-43).
ReturnErr(step) ==
    /\ pc' = "returned"
    /\ result' = "Err"
    /\ failedAt' = step
    /\ xdisplay' = IF xdisplay = "open" THEN "closed" ELSE xdisplay

\* lib.rs:142-144
AllocDisplay ==
    /\ pc = "alloc"
    /\ IF find_free_xdisplay(locks) = NoDisplay
       THEN /\ ReturnErr("alloc")
            /\ UNCHANGED display
       ELSE /\ display' = find_free_xdisplay(locks)
            /\ pc' = "write_auth"
            /\ UNCHANGED <<result, failedAt, xdisplay>>
    /\ UNCHANGED <<locks, authFile, authCreated, utilFailed, removeFailed,
                   xorgLog, attempts, slept, xinit, alive, signalled, sigState,
                   pending, thread, sigArrived, sigDefault, sigForwarded,
                   sigLost, user, children, outsideEngine>>

\* lib.rs:156  std::fs::write(&xauthority, "")?
WriteAuth(ok) ==
    /\ pc = "write_auth"
    /\ IF ok
       THEN /\ authFile' = "exists"
            /\ authCreated' = TRUE
            /\ pc' = "chown_auth"
            /\ UNCHANGED <<result, failedAt, xdisplay>>
       ELSE /\ ReturnErr("write_auth")
            /\ UNCHANGED <<authFile, authCreated>>
    /\ UNCHANGED <<locks, display, utilFailed, removeFailed, xorgLog,
                   attempts, slept, xinit, alive, signalled, sigState, pending,
                   thread, sigArrived, sigDefault, sigForwarded, sigLost,
                   user, children, outsideEngine>>

\* lib.rs:157  user.set_file_owner(&xauthority)?
ChownAuth(ok) ==
    /\ pc = "chown_auth"
    /\ IF ok
       THEN /\ pc' = "mcookie"
            /\ UNCHANGED <<result, failedAt, xdisplay>>
       ELSE ReturnErr("chown_auth")
    /\ UNCHANGED <<locks, display, authFile, authCreated, utilFailed,
                   removeFailed, xorgLog, attempts, slept, xinit, alive, signalled,
                   sigState, pending, thread, sigArrived, sigDefault,
                   sigForwarded, sigLost, user, children, outsideEngine>>

\* What running a utility with Command::output() can come to: it ran and
\* exited with success, it could not be started, it ran and exited with a
\* failure status, or (mcookie only) its output was not UTF-8.
McookieOutcomes == {"ok", "nostart", "badstatus", "badutf8"}
XauthOutcomes == {"ok", "nostart", "badstatus"}

\* lib.rs:160-161  exec_cmd("/usr/bin/mcookie").output()?; from_utf8(..)?
\* output() is Ok whatever the exit status, and the status is not looked at.
Mcookie(out) ==
    /\ pc = "mcookie"
    /\ children' = IF out = "nostart" THEN children
                    ELSE children \cup {exec_cmd("mcookie", user)}
    /\ IF out \in {"nostart", "badutf8"}
       THEN /\ ReturnErr("mcookie")
            /\ UNCHANGED utilFailed
       ELSE /\ pc' = "xauth"
            /\ utilFailed' = IF out = "badstatus"
                             THEN utilFailed \cup {"mcookie"} ELSE utilFailed
            /\ UNCHANGED <<result, failedAt, xdisplay>>
    /\ UNCHANGED <<locks, display, authFile, authCreated, removeFailed,
                   xorgLog, attempts, slept, xinit, alive, signalled, sigState,
                   pending, thread, sigArrived, sigDefault, sigForwarded,
                   sigLost, user, outsideEngine>>

\* lib.rs:164-169  exec_cmd("/usr/bin/xauth").arg("add")...output()?
Xauth(out) ==
    /\ pc = "xauth"
    /\ children' = IF out = "nostart" THEN children
                    ELSE children \cup {exec_cmd("xauth", user)}
    /\ IF out = "nostart"
       THEN /\ ReturnErr("xauth")
            /\ UNCHANGED utilFailed
       ELSE /\ pc' = "spawn_xorg"
            /\ utilFailed' = IF out = "badstatus"
                             THEN utilFailed \cup {"xauth"} ELSE utilFailed
            /\ UNCHANGED <<result, failedAt, xdisplay>>
    /\ UNCHANGED <<locks, display, authFile, authCreated, removeFailed,
                   xorgLog, attempts, slept, xinit, alive, signalled, sigState,
                   pending, thread, sigArrived, sigDefault, sigForwarded,
                   sigLost, user, outsideEngine>>

\* lib.rs:172-177  Command::new("/usr/bin/Xorg")...spawn()?
SpawnXorg(ok) ==
    /\ pc = "spawn_xorg"
    /\ children' = IF ok THEN children \cup {xorg_command} ELSE children
    /\ IF ok
       THEN /\ xorgLog' = Append(xorgLog, "spawn")
            /\ pc' = "open"
            /\ UNCHANGED <<result, failedAt, xdisplay>>
       ELSE /\ ReturnErr("spawn_xorg")
            /\ UNCHANGED xorgLog
    /\ UNCHANGED <<locks, display, authFile, authCreated, utilFailed,
                   removeFailed, attempts, slept, xinit, alive, signalled, sigState,
                   pending, thread, sigArrived, sigDefault, sigForwarded,
                   sigLost, user, outsideEngine>>

\* OpenAttempt as it would be if the loop gave up one attempt early
\* (for _ in 0..49).
OpenAttemptOneShort(connected) ==
    /\ pc = "open"
    /\ attempts < OpenAttempts - 1
    /\ IF connected
       THEN /\ xdisplay' = "open"
            /\ pc' = "spawn_xinit"
            /\ UNCHANGED <<attempts, slept, failedAt>>
       ELSE /\ attempts' = attempts + 1
            /\ slept' = slept + OpenDelayMs
            /\ pc' = IF attempts + 1 = OpenAttempts - 1 THEN "abort_kill" ELSE "open"
            /\ failedAt' = IF attempts + 1 = OpenAttempts - 1 THEN "open" ELSE failedAt
            /\ UNCHANGED xdisplay
    /\ UNCHANGED <<result, locks, display, authFile, authCreated, utilFailed,
                   removeFailed, xorgLog, xinit, alive, signalled, sigState,
                   pending, thread, sigArrived, sigDefault, sigForwarded,
                   sigLost, user, children, outsideEngine>>

\* xdisplay.rs:23-36  one turn of the loop of XDisplay::open, called at
\* lib.rs:180.  A connection returns at once; a failed attempt sleeps, and the
\* 50th failed attempt leaves the loop into bail!, which start_xinit's `?`
\* hands to the handler at lib.rs:192.
OpenAttempt(connected) ==
    /\ pc = "open"
    /\ attempts < OpenAttempts
    /\ IF connected
       THEN /\ xdisplay' = "open"
            /\ pc' = "spawn_xinit"
            /\ UNCHANGED <<attempts, slept, failedAt>>
       ELSE /\ attempts' = attempts + 1
            /\ slept' = slept + OpenDelayMs
            /\ pc' = IF attempts + 1 = OpenAttempts THEN "abort_kill" ELSE "open"
            /\ failedAt' = IF attempts + 1 = OpenAttempts THEN "open" ELSE failedAt
            /\ UNCHANGED xdisplay
    /\ UNCHANGED <<result, locks, display, authFile, authCreated, utilFailed,
                   removeFailed, xorgLog, xinit, alive, signalled, sigState,
                   pending, thread, sigArrived, sigDefault, sigForwarded,
                   sigLost, user, children, outsideEngine>>

\* lib.rs:183-188  prepare_gui_command(..)?.current_dir(..).spawn()?
\* On failure the closure returns Err and drops the XDisplay it opened.
SpawnXinit(ok) ==
    /\ pc = "spawn_xinit"
    /\ children' = IF ok THEN children \cup {exec_cmd("session", user)}
                    ELSE children
    /\ IF ok
       THEN /\ xinit' = "spawned"
            /\ alive' = alive \cup {XinitPid}
            /\ pc' = "register"
            /\ UNCHANGED <<failedAt, xdisplay>>
       ELSE /\ failedAt' = "spawn_xinit"
            /\ xdisplay' = "closed"
            /\ pc' = "abort_kill"
            /\ UNCHANGED <<xinit, alive>>
    /\ UNCHANGED <<result, locks, display, authFile, authCreated, utilFailed,
                   removeFailed, xorgLog, attempts, slept, signalled, sigState,
                   pending, thread, sigArrived, sigDefault, sigForwarded,
                   sigLost, user, outsideEngine>>

\* lib.rs:193  kill_process(xorg.id()) in the handler of a failed start_xinit
AbortKill ==
    /\ pc = "abort_kill"
    /\ xorgLog' = Append(xorgLog, "kill")
    /\ pc' = "abort_wait"
    /\ UNCHANGED <<result, failedAt, locks, display, authFile, authCreated,
                   utilFailed, removeFailed, attempts, slept, xdisplay, xinit, alive,
                   signalled, sigState, pending, thread, sigArrived,
                   sigDefault, sigForwarded, sigLost, user, children, outsideEngine>>

\* AbortWait as it would be if the handler returned the error without
\* waiting for the server.
AbortWaitForgotten ==
    /\ pc = "abort_wait"
    /\ pc' = "returned"
    /\ result' = "Err"
    /\ UNCHANGED <<failedAt, locks, display, authFile, authCreated,
                   utilFailed, removeFailed, xorgLog, attempts, slept, xdisplay,
                   xinit, alive, signalled, sigState, pending, thread,
                   sigArrived, sigDefault, sigForwarded, sigLost, user, children, outsideEngine>>

\* lib.rs:194-195  wait_process(xorg); return Err(e)
AbortWait ==
    /\ pc = "abort_wait"
    /\ xorgLog' = Append(xorgLog, "wait")
    /\ pc' = "returned"
    /\ result' = "Err"
    /\ UNCHANGED <<failedAt, locks, display, authFile, authCreated,
                   utilFailed, removeFailed, attempts, slept, xdisplay, xinit, alive,
                   signalled, sigState, pending, thread, sigArrived,
                   sigDefault, sigForwarded, sigLost, user, children, outsideEngine>>

\* lib.rs:199-208  Signals::new([SIGHUP, SIGINT, SIGQUIT, SIGTERM]) and the
\* spawn of the forwarding thread.
RegisterSignals ==
    /\ pc = "register"
    /\ sigState' = "registered"
    /\ thread' = "running"
    /\ pc' = "poll"
    /\ UNCHANGED <<result, failedAt, locks, display, authFile, authCreated,
                   utilFailed, removeFailed, xorgLog, attempts, slept, xdisplay,
                   xinit, alive, signalled, pending, sigArrived, sigDefault,
                   sigForwarded, sigLost, user, children, outsideEngine>>

\* lib.rs:210-217  one turn of the polling loop: getpgid(xinit.id()) < 0
\* leaves it, anything else sleeps 500 ms and polls again.
Poll ==
    /\ pc = "poll"
    /\ pc' = IF getpgid(XinitPid) < 0 THEN "wait_xinit" ELSE "poll"
    /\ UNCHANGED <<result, failedAt, locks, display, authFile, authCreated,
                   utilFailed, removeFailed, xorgLog, attempts, slept, xdisplay,
                   xinit, alive, signalled, sigState, pending, thread,
                   sigArrived, sigDefault, sigForwarded, sigLost, user, children, outsideEngine>>

\* lib.rs:219-220  wait_process(xinit)
WaitXinit ==
    /\ pc = "wait_xinit"
    /\ xinit' = "reaped"
    /\ pc' = "close_signals"
    /\ UNCHANGED <<result, failedAt, locks, display, authFile, authCreated,
                   utilFailed, removeFailed, xorgLog, attempts, slept, xdisplay,
                   alive, signalled, sigState, pending, thread, sigArrived,
                   sigDefault, sigForwarded, sigLost, user, children, outsideEngine>>

\* lib.rs:222  signals_handle.close()
CloseSignals ==
    /\ pc = "close_signals"
    /\ sigState' = "closed"
    /\ pc' = "kill_xorg"
    /\ UNCHANGED <<result, failedAt, locks, display, authFile, authCreated,
                   utilFailed, removeFailed, xorgLog, attempts, slept, xdisplay,
                   xinit, alive, signalled, pending, thread, sigArrived,
                   sigDefault, sigForwarded, sigLost, user, children, outsideEngine>>

\* lib.rs:224  kill_process(xorg.id())
KillXorg ==
    /\ pc = "kill_xorg"
    /\ xorgLog' = Append(xorgLog, "kill")
    /\ pc' = "wait_xorg"
    /\ UNCHANGED <<result, failedAt, locks, display, authFile, authCreated,
                   utilFailed, removeFailed, attempts, slept, xdisplay, xinit, alive,
                   signalled, sigState, pending, thread, sigArrived,
                   sigDefault, sigForwarded, sigLost, user, children, outsideEngine>>

\* lib.rs:225-226  wait_process(xorg)
WaitXorg ==
    /\ pc = "wait_xorg"
    /\ xorgLog' = Append(xorgLog, "wait")
    /\ pc' = "remove_auth"
    /\ UNCHANGED <<result, failedAt, locks, display, authFile, authCreated,
                   utilFailed, removeFailed, attempts, slept, xdisplay, xinit, alive,
                   signalled, sigState, pending, thread, sigArrived,
                   sigDefault, sigForwarded, sigLost, user, children, outsideEngine>>

\* RemoveAuth as it would be if the connection were never closed (the
\* XDisplay forgotten instead of dropped).
RemoveAuthKeepingDisplay(ok) ==
    /\ pc = "remove_auth"
    /\ pc' = "returned"
    /\ IF ok
       THEN /\ authFile' = "absent"
            /\ result' = "Ok"
            /\ UNCHANGED <<removeFailed, failedAt>>
       ELSE /\ removeFailed' = TRUE
            /\ result' = "Err"
            /\ failedAt' = "remove_auth"
            /\ UNCHANGED authFile
    /\ UNCHANGED <<locks, display, authCreated, utilFailed, xorgLog,
                   attempts, slept, xdisplay, xinit, alive, signalled, sigState,
                   pending, thread, sigArrived, sigDefault, sigForwarded,
                   sigLost, user, children, outsideEngine>>

\* lib.rs:228-232  std::fs::remove_file(&xauthority)?; Ok(())
\* Either way xorg() returns here and drops _xdisplay.
RemoveAuth(ok) ==
    /\ pc = "remove_auth"
    /\ pc' = "returned"
    /\ xdisplay' = "closed"
    /\ IF ok
       THEN /\ authFile' = "absent"
            /\ result' = "Ok"
            /\ UNCHANGED <<removeFailed, failedAt>>
       ELSE /\ removeFailed' = TRUE
            /\ result' = "Err"
            /\ failedAt' = "remove_auth"
            /\ UNCHANGED authFile
    /\ UNCHANGED <<locks, display, authCreated, utilFailed, xorgLog,
                   attempts, slept, xinit, alive, signalled, sigState, pending,
                   thread, sigArrived, sigDefault, sigForwarded, sigLost,
                   user, children, outsideEngine>>

----------------------------------------------------------------------------
(* lib.rs: the interrupt-forwarding thread *)

\* lib.rs:204-206  for _ in signals.forever() { kill_process(xinit_id) }
ThreadForward ==
    /\ pc \notin Terminal
    /\ thread = "running"
    /\ pending > 0
    /\ pending' = pending - 1
    /\ sigForwarded' = sigForwarded + 1
    /\ signalled' = signalled \cup kill_process(XinitPid)
    /\ UNCHANGED <<pc, result, failedAt, locks, display, authFile,
                   authCreated, utilFailed, removeFailed, xorgLog, attempts, slept,
                   xdisplay, xinit, alive, sigState, thread, sigArrived,
                   sigDefault, sigLost, user, children, outsideEngine>>

\* lib.rs:204  signals.forever() ends once the handle was closed (lib.rs:222);
\* what is still pending is dropped with the iterator.
ThreadExit ==
    /\ pc \notin Terminal
    /\ thread = "running"
    /\ sigState = "closed"
    /\ thread' = "exited"
    /\ pending' = 0
    /\ sigLost' = sigLost + pending
    /\ UNCHANGED <<pc, result, failedAt, locks, display, authFile,
                   authCreated, utilFailed, removeFailed, xorgLog, attempts, slept,
                   xdisplay, xinit, alive, signalled, sigState, sigArrived,
                   sigDefault, sigForwarded, user, children, outsideEngine>>

----------------------------------------------------------------------------
(* The environment of the engine *)

\* SIGHUP, SIGINT, SIGQUIT or SIGTERM arrives at the engine's process.  Until
\* Signals::new (lib.rs:199) ran, the default disposition ends the process;
\* after it the signal is queued for the iterator; once the handle is closed
\* the handler stays installed, and the signal is queued or dropped.
Interrupt(queued) ==
    /\ pc \notin Terminal
    /\ sigArrived < MaxSignals
    /\ sigArrived' = sigArrived + 1
    /\ CASE sigState = "default" ->
              /\ pc' = "killed"
              /\ sigDefault' = sigDefault + 1
              /\ UNCHANGED <<pending, sigLost>>
         [] sigState = "registered" \/ (queued /\ thread = "running") ->
              /\ pending' = pending + 1
              /\ UNCHANGED <<pc, sigDefault, sigLost>>
         [] OTHER ->
              /\ sigLost' = sigLost + 1
              /\ UNCHANGED <<pc, sigDefault, pending>>
    /\ UNCHANGED <<result, failedAt, locks, display, authFile, authCreated,
                   utilFailed, removeFailed, xorgLog, attempts, slept, xdisplay,
                   xinit, alive, signalled, sigState, thread, sigForwarded,
                   user, children, outsideEngine>>

\* The session child exits (by itself, or because it was signalled).
SessionExit ==
    /\ XinitPid \in alive
    /\ alive' = alive \ {XinitPid}
    /\ UNCHANGED <<pc, result, failedAt, locks, display, authFile,
                   authCreated, utilFailed, removeFailed, xorgLog, attempts, slept,
                   xdisplay, xinit, signalled, sigState, pending, thread,
                   sigArrived, sigDefault, sigForwarded, sigLost, user, children, outsideEngine>>

\* The session child starts a process of its own in its process group.
SessionFork ==
    /\ XinitPid \in alive
    /\ HelperPid \notin alive
    /\ alive' = alive \cup {HelperPid}
    /\ UNCHANGED <<pc, result, failedAt, locks, display, authFile,
                   authCreated, utilFailed, removeFailed, xorgLog, attempts, slept,
                   xdisplay, xinit, signalled, sigState, pending, thread,
                   sigArrived, sigDefault, sigForwarded, sigLost, user, children, outsideEngine>>

\* That process exits.
HelperExit ==
    /\ HelperPid \in alive
    /\ alive' = alive \ {HelperPid}
    /\ UNCHANGED <<pc, result, failedAt, locks, display, authFile,
                   authCreated, utilFailed, removeFailed, xorgLog, attempts, slept,
                   xdisplay, xinit, signalled, sigState, pending, thread,
                   sigArrived, sigDefault, sigForwarded, sigLost, user, children, outsideEngine>>

----------------------------------------------------------------------------
(* user.rs: accounts and the process's identity *)

\* The identity database: the operator the engine runs as, and two accounts.
Root == [uid |-> 0, primary_group |-> 0]
Accounts == {[uid |-> 1000, primary_group |-> 1000],
             [uid |-> 1001, primary_group |-> 100]}

\* user.rs:135-161  get_user_by_uid over the database above
get_user_by_uid(uid) ==
    CHOOSE u \in Accounts \cup {Root} : u.uid = uid

\* user.rs:67-69  get_current: the account of the real uid
get_current == get_user_by_uid(ruid)

\* user.rs:71-76  set_fs_user: setfsuid(user.uid); setgid(user.primary_group)
set_fs_user(usr) == [fsuid |-> usr.uid, gid |-> usr.primary_group]

----------------------------------------------------------------------------
(* desktop.rs: the last-session record *)

\* Longest session command of the model, in characters.
MaxExecLen == 2

\* Characters a session command is made of; "nl" is the line feed.
ExecChars == {"a", "b", " ", ";"}
Whitespace == {" ", "nl"}

ExecStrings == UNION {[1..n -> ExecChars] : n \in 0..MaxExecLen}

\* desktop.rs:81-84  enum Environment
Environments == {"Xorg"}

\* desktop.rs:16-22  struct Desktop, its exec and env fields
Desktops == [exec : ExecStrings, env : Environments]

\* desktop.rs:158-164  impl Display for Environment
EnvironmentToString(env) ==
    CASE env = "Xorg" -> <<"X", "o", "r", "g">>

\* desktop.rs:166-175  impl FromStr for Environment; "Err" for an unknown tag
EnvironmentFromStr(s) ==
    IF s \in {<<"X", "o", "r", "g">>, <<"x", "o", "r", "g">>}
    THEN "Xorg" ELSE "Err"

\* str::trim, as used at desktop.rs:48
RECURSIVE trim_start(_)
trim_start(s) ==
    IF s # <<>> /\ Head(s) \in Whitespace THEN trim_start(Tail(s)) ELSE s

RECURSIVE trim_end(_)
trim_end(s) ==
    IF s # <<>> /\ s[Len(s)] \in Whitespace
    THEN trim_end(SubSeq(s, 1, Len(s) - 1)) ELSE s

trim(s) == trim_end(trim_start(s))

\* str::find(';'), as used at desktop.rs:50: the first index (from 1) of c
\* in s, 0 when there is none
find(s, c) ==
    IF \E i \in 1..Len(s) : s[i] = c
    THEN CHOOSE i \in 1..Len(s) : s[i] = c /\ \A j \in 1..(i - 1) : s[j] # c
    ELSE 0

\* What can be at the record's path.
Absent == [kind |-> "absent"]
Directory == [kind |-> "dir"]
File(content) == [kind |-> "file", content |-> content]

None == [some |-> FALSE]
Some(exec, env) == [some |-> TRUE, exec |-> exec, env |-> env]

\* desktop.rs:74  format!("{};{}\n", desktop.exec, desktop.env)
FormatRecord(desktop) ==
    desktop.exec \o <<";">> \o EnvironmentToString(desktop.env) \o <<"nl">>

\* desktop.rs:41-65  get_last_session on what is at the path.  split_at(split)
\* cuts before the ';', so the tag handed to from_str begins with it.
get_last_session(node) ==
    IF node.kind = "absent" THEN None
    ELSE IF node.kind = "dir" THEN None
    ELSE LET last_session == trim(node.content)
             split == find(last_session, ";")
         IN  IF split = 0 THEN None
             ELSE LET exec == SubSeq(last_session, 1, split - 1)
                      env == SubSeq(last_session, split, Len(last_session))
                  IN  IF EnvironmentFromStr(env) = "Err" THEN None
                      ELSE Some(exec, EnvironmentFromStr(env))

\* std::fs::create_dir_all(&path), desktop.rs:73: a directory at the path is
\* left alone, anything else there is an error, and creating may fail.
create_dir_all(node, ok) ==
    CASE node.kind = "dir" -> [ok |-> TRUE, node |-> node]
      [] node.kind = "file" -> [ok |-> FALSE, node |-> node]
      [] OTHER -> IF ok THEN [ok |-> TRUE, node |-> Directory]
                  ELSE [ok |-> FALSE, node |-> node]

\* std::fs::write(&path, ..), desktop.rs:74: a directory cannot be written.
fs_write(node, content) ==
    IF node.kind = "dir" THEN [ok |-> FALSE, node |-> node]
    ELSE [ok |-> TRUE, node |-> File(content)]

\* desktop.rs:67-79  set_last_session: the node, the identity and the result
\* it leaves.  Both `?` return before the identity is set back; the result
\* of the write is not looked at.
set_last_session(node, usr, desktop, mkdirOk, chmodOk) ==
    LET previous_user == get_current
        asUser == set_fs_user(usr)
        made == create_dir_all(node, mkdirOk)
        written == fs_write(made.node, FormatRecord(desktop))
    IN  IF ~made.ok
        THEN [result |-> "Err", node |-> made.node, id |-> asUser]
        ELSE IF ~chmodOk
        THEN [result |-> "Err", node |-> written.node, id |-> asUser]
        ELSE [result |-> "Ok", node |-> written.node,
              id |-> set_fs_user(previous_user)]

\* A call of set_last_session (lib.rs:135) for account usr.
SetLastSession(usr, desktop, mkdirOk, chmodOk) ==
    LET r == set_last_session(lsNode[usr], usr, desktop, mkdirOk, chmodOk)
    IN  /\ lsPc = "idle"
        /\ entryId' = [fsuid |-> fsuid, gid |-> gid]
        /\ savedDesk' = [usr |-> usr, desktop |-> desktop]
        /\ lsNode' = [lsNode EXCEPT ![usr] = r.node]
        /\ fsuid' = r.id.fsuid
        /\ gid' = r.id.gid
        /\ saveResult' = r.result
        /\ lsPc' = "saved"
        /\ UNCHANGED <<ruid, loaded, outsideStore>>

\* A call of get_last_session (desktop.rs:29) for the account just saved.
GetLastSession ==
    /\ lsPc = "saved"
    /\ loaded' = get_last_session(lsNode[savedDesk.usr])
    /\ lsPc' = "loaded"
    /\ UNCHANGED <<lsNode, ruid, fsuid, gid, entryId, saveResult, savedDesk,
                   outsideStore>>

----------------------------------------------------------------------------
(* lib.rs: select_desktop and update_last_session; desktop.rs: get_last_desktop *)

SomeDesktop(d) == [some |-> TRUE, desktop |-> d]
SomeString(str) == [some |-> TRUE, value |-> str]

\* Iterator::find over the enumerated sessions: the first one among those at
\* the indices idx, None when idx is empty.
first_of(dl, idx) ==
    IF idx = {} THEN None
    ELSE SomeDesktop(dl[CHOOSE i \in idx : \A j \in idx : i <= j])

\* str::starts_with, as used at lib.rs:71
starts_with(str, prefix) ==
    /\ Len(prefix) <= Len(str)
    /\ SubSeq(str, 1, Len(prefix)) = prefix

\* desktop.rs:28-33  get_last_desktop on what is at the record's path
get_last_desktop(node, dl) ==
    LET last_session == get_last_session(node)
    IN  IF ~last_session.some THEN None
        ELSE first_of(dl, {i \in 1..Len(dl) :
                              /\ dl[i].env = last_session.env
                              /\ dl[i].exec = last_session.exec})

\* lib.rs:128-139  update_last_session: set_last_session is called when no
\* last desktop was found or its command differs; its error is only printed.
\* The node and identity left, and whether the call was made.
update_last_session(node, usr, last_desktop, desktop, mkdirOk, chmodOk) ==
    LET last_session_changed ==
            IF last_desktop.some THEN last_desktop.desktop.exec # desktop.exec
            ELSE TRUE
        r == set_last_session(node, usr, desktop, mkdirOk, chmodOk)
    IN  IF last_session_changed
        THEN [called |-> TRUE, node |-> r.node, id |-> r.id]
        ELSE [called |-> FALSE, node |-> node,
              id |-> [fsuid |-> fsuid, gid |-> gid]]

\* lib.rs:63-66  Desktop::all(), the ensure! and get_last_desktop
LookUpLastDesktop ==
    /\ selPc = "idle"
    /\ IF desktops = <<>>
       THEN /\ selPc' = "done"
            /\ selBy' = "error"
            /\ UNCHANGED lastDesktop
       ELSE /\ selPc' = "looked"
            /\ lastDesktop' = get_last_desktop(lsNode[user], desktops)
            /\ UNCHANGED selBy
    /\ UNCHANGED <<desktops, autoLogin, chosen, engineVars, loginVars, storeVars,
                   guiVars, authVars, lookupVars>>

\* lib.rs:67-72  the indices of the sessions whose command begins with the
\* trimmed auto_login_session; none when it is not set.
auto_login_matches ==
    IF autoLogin.some
    THEN {i \in 1..Len(desktops) :
             starts_with(desktops[i].exec, trim(autoLogin.value))}
    ELSE {}

\* lib.rs:67-76  the auto-login branch: the first session whose command
\* begins with the trimmed auto_login_session is taken, and the record is
\* updated.  Not enabled when there is no such session.
AutoLogin(mkdirOk, chmodOk) ==
    LET found == first_of(desktops, auto_login_matches)
        u == update_last_session(lsNode[user], user, lastDesktop,
                                 found.desktop, mkdirOk, chmodOk)
    IN  /\ selPc = "looked"
        /\ autoLogin.some
        /\ found.some
        /\ chosen' = found
        /\ selBy' = "auto"
        /\ selPc' = "done"
        /\ lsNode' = [lsNode EXCEPT ![user] = u.node]
        /\ fsuid' = u.id.fsuid
        /\ gid' = u.id.gid
        /\ UNCHANGED <<desktops, autoLogin, lastDesktop, lsPc, ruid, entryId,
                       saveResult, savedDesk, loaded, engineVars, loginVars, guiVars,
                       authVars, lookupVars>>

\* lib.rs:78-85  the interactive branch: the prompt gives an index or fails.
Interactive(selection, promptOk) ==
    /\ selPc = "looked"
    /\ auto_login_matches = {}
    /\ selection \in 1..Len(desktops)
    /\ selPc' = "done"
    /\ IF promptOk
       THEN /\ chosen' = SomeDesktop(desktops[selection])
            /\ selBy' = "interactive"
       ELSE /\ selBy' = "error"
            /\ UNCHANGED chosen
    /\ UNCHANGED <<desktops, autoLogin, lastDesktop, engineVars, loginVars, storeVars,
                   guiVars, authVars, lookupVars>>

----------------------------------------------------------------------------
(* lib.rs: prepare_gui_command; config.rs: LaunchType *)

\* config.rs:10-14  enum LaunchType
LaunchTypes == {"XInitRc", "DBus"}

\* Characters of a session command here: a letter, the space, and one token
\* for the run of characters ".xinitrc" (which holds no space).
GuiChars == {"a", " ", ".xinitrc"}

\* Longest session command handed to prepare_gui_command, in characters.
MaxGuiLen == 3

GuiStrings == UNION {[1..n -> GuiChars] : n \in 0..MaxGuiLen}

\* str::split(' '), as used at lib.rs:235: the pieces between the spaces, an
\* empty piece for every two adjacent spaces and at either end; one empty
\* piece for the empty string.
RECURSIVE split_spaces(_)
split_spaces(str) ==
    IF find(str, " ") = 0 THEN <<str>>
    ELSE <<SubSeq(str, 1, find(str, " ") - 1)>>
         \o split_spaces(SubSeq(str, find(str, " ") + 1, Len(str)))

\* Vec::contains, as used at lib.rs:238
contains(words, w) == \E i \in 1..Len(words) : words[i] = w

\* The words the code writes out itself.
DotXinitrc == <<".xinitrc">>
Bash == <<"/bin/bash">>
LoginFlag == <<"--login">>
HomeXinitrc == <<"~/.xinitrc">>
DbusLaunch == <<"dbus-launch">>

GuiOk(bin, args) == [ok |-> TRUE, bin |-> bin, args |-> args]
GuiErr(msg) == [ok |-> FALSE, err |-> msg]

\* prepare_gui_command as it would be without the test for a ".xinitrc" word
\* in the command.
prepare_gui_command_unguarded(exec_line, launch_type, has_xinitrc) ==
    LET exec == split_spaces(exec_line)
    IN  IF launch_type = "XInitRc" /\ has_xinitrc
        THEN GuiOk(Bash, <<LoginFlag, HomeXinitrc>> \o exec)
        ELSE IF launch_type = "DBus"
        THEN GuiOk(DbusLaunch, exec)
        ELSE IF exec = <<>> THEN GuiErr("Empty exec")
        ELSE GuiOk(Head(exec), Tail(exec))

\* lib.rs:234-257  prepare_gui_command: the program and the arguments of the
\* Command it returns, or its error.
prepare_gui_command(exec_line, launch_type, has_xinitrc) ==
    LET exec == split_spaces(exec_line)
    IN  IF /\ launch_type = "XInitRc"
           /\ ~contains(exec, DotXinitrc)
           /\ has_xinitrc
        THEN GuiOk(Bash, <<LoginFlag, HomeXinitrc>> \o exec)
        ELSE IF launch_type = "DBus"
        THEN GuiOk(DbusLaunch, exec)
        ELSE IF exec = <<>> THEN GuiErr("Empty exec")
        ELSE GuiOk(Head(exec), Tail(exec))

\* lib.rs:183  the call of prepare_gui_command in start_xinit
PrepareGuiCommand ==
    /\ guiPc = "idle"
    /\ guiOut' = prepare_gui_command(guiIn.exec, guiIn.launch_type,
                                     guiIn.has_xinitrc)
    /\ guiPc' = "prepared"
    /\ UNCHANGED <<guiIn, guiSpawn, engineVars, loginVars, storeVars, selVars, authVars,
                   lookupVars>>

\* lib.rs:183-185  `?` on the prepared command, then Command::spawn: it is
\* handed the program as prepared; a program with an empty name cannot be
\* started, any other may or may not start.
SpawnGui(started) ==
    /\ guiPc = "prepared"
    /\ guiOut.ok
    /\ guiSpawn' = [bin |-> guiOut.bin,
                    ok |-> started /\ guiOut.bin # <<>>]
    /\ guiPc' = "spawned"
    /\ UNCHANGED <<guiIn, guiOut, engineVars, loginVars, storeVars, selVars, authVars,
                   lookupVars>>

----------------------------------------------------------------------------
(* auth.rs: auth_password; user.rs: get_user_password as auth_password sees it *)

\* Two calls of auth_password side by side, so that their outcomes can be
\* compared.
Runs == {1, 2}

\* Characters of a candidate password: two letters and the NUL character,
\* which a Rust &str may hold.
PasswordChars == {"p", "q", "NUL"}

\* Longest candidate password, in characters.
MaxPasswordLen == 2

Passwords == UNION {[1..n -> PasswordChars] : n \in 0..MaxPasswordLen}

\* crypt(3) output for a key under a salt: one string per (salt, key).
Hashed(salt, key) == [salt |-> salt, key |-> key]

\* The sp_pwdp field of a locked account: not a hash, and no valid setting.
Locked == [salt |-> "!", key |-> <<>>]

Null == [null |-> TRUE]

\* auth.rs:10, :27  crypt(key, setting): the hash of the key under the
\* setting's salt, or a null pointer for a setting it cannot use.
crypt(key, setting) ==
    IF setting = Locked THEN Null ELSE Hashed(setting.salt, key)

\* What /etc/shadow holds for the account, or why it cannot be read.
ShadowRecord(pwdp) == [kind |-> "record", pwdp |-> pwdp]
ShadowMissing == [kind |-> "missing"]
ShadowDenied == [kind |-> "eacces"]
ShadowEntries ==
    {ShadowRecord(Hashed("s", <<"p">>)), ShadowRecord(Hashed("s", <<"q", "p">>)),
     ShadowRecord(Locked), ShadowMissing, ShadowDenied}

\* user.rs:163-199  get_user_password: Ok(sp_pwdp) or the error of the branch
\* that returns.
get_user_password(shadow) ==
    IF shadow.kind = "eacces"
    THEN [ok |-> FALSE,
          err |-> "The caller does not have permission to access the shadow password file"]
    ELSE IF shadow.kind = "missing"
    THEN [ok |-> FALSE,
          err |-> "Failed to find shadow file record for specified username"]
    ELSE [ok |-> TRUE, value |-> shadow.pwdp]

AuthReturn(value, stderr) == [kind |-> "return", value |-> value, stderr |-> stderr]
AuthPanic == [kind |-> "panic", stderr |-> <<"panicked: NulError">>]

\* auth.rs:13-33  auth_password: what it returns and what it writes to
\* standard error.
auth_password(password, shadow) ==
    IF \E i \in 1..Len(password) : password[i] = "NUL"
    THEN AuthPanic
    ELSE LET user_password == get_user_password(shadow)
         IN  IF ~user_password.ok
             THEN AuthReturn(FALSE, <<"Failed to authorize: ", user_password.err>>)
             ELSE LET crypted == crypt(password, user_password.value)
                  IN  IF crypted = Null
                      THEN AuthReturn(FALSE, <<>>)
                      ELSE AuthReturn(user_password.value = crypted, <<>>)

\* auth.rs:13-33  one call of auth_password
AuthPassword(r) ==
    /\ authPc[r] = "idle"
    /\ authOut' = [authOut EXCEPT ![r] = auth_password(authIn[r].password,
                                                       authIn[r].shadow)]
    /\ authPc' = [authPc EXCEPT ![r] = "done"]
    /\ UNCHANGED <<authIn, engineVars, loginVars, storeVars, selVars, guiVars, lookupVars>>

----------------------------------------------------------------------------
(* user.rs: the buffer loop of get_user_by_uid, get_user_by_name and
   get_user_password *)

\* The three lookups.
Lookups == {"get_user_by_uid", "get_user_by_name", "get_user_password"}

\* user.rs:137, :170, :211  vec![0; 2048]: buf.len() is 2^11. Buffer lengths
\* are powers of two throughout and are kept as their exponents.
InitialBufLog == 11

\* usize is 64 bits wide: checked_mul fails from 2^64 on.
UsizeBits == 64

\* isize::MAX is 2^63 - 1: a Vec of bytes cannot grow beyond it, and
\* Vec::resize panics ("capacity overflow") when asked to.
IsizeBits == 63

\* What getpwuid_r / getpwnam_r / getspnam_r can come back with: ERANGE, the
\* entry, no entry, EACCES, or another error code (result stays null).
BackingReturns == {"ERANGE", "found", "notfound", "EACCES", "EIO"}

LookupReturn(value) == [kind |-> "return", value |-> value]
LookupPanic == [kind |-> "panic", value |-> "capacity overflow"]

\* What the lookup returns when checked_mul(2) fails: `?` on an Option in the
\* two passwd lookups (user.rs:147, :221), ok_or_else(..)? in the shadow
\* lookup (user.rs:182-185).
on_overflow(kind) ==
    IF kind = "get_user_password"
    THEN LookupReturn("Err(Failed to increase spwd buffer)")
    ELSE LookupReturn("None")

\* What the lookup returns once the loop is left with a null result
\* (user.rs:151-157, :193-195, :225-231).
on_not_found(kind) ==
    IF kind = "get_user_password"
    THEN LookupReturn("Err(Failed to find shadow file record for specified username)")
    ELSE LookupReturn("None")

\* What the lookup returns once the loop is left with the entry
\* (user.rs:159-160, :197-198, :233-234).
on_found(kind) ==
    IF kind = "get_user_password"
    THEN LookupReturn("Ok(sp_pwdp)")
    ELSE LookupReturn("Some(user)")

\* user.rs:135-139, :163-172, :201-213  a lookup is entered and allocates its
\* buffer.
LookupStart(kind) ==
    /\ luPc = "idle"
    /\ luPc' = "loop"
    /\ luKind' = kind
    /\ luBuf' = InitialBufLog
    /\ UNCHANGED <<luGrown, luRets, luOut, engineVars, loginVars, storeVars, selVars,
                   guiVars, authVars>>

\* user.rs:140-149, :173-191, :214-223  one turn of the loop: the backing
\* call, then growth of the buffer or the end of the lookup.
LookupCall(r) ==
    /\ luPc = "loop"
    /\ luRets' = Append(luRets, r)
    /\ IF r = "ERANGE"
       THEN IF luBuf + 1 >= UsizeBits
            THEN /\ luPc' = "done"
                 /\ luOut' = on_overflow(luKind)
                 /\ UNCHANGED <<luBuf, luGrown>>
            ELSE IF luBuf + 1 >= IsizeBits
            THEN /\ luPc' = "done"
                 /\ luOut' = LookupPanic
                 /\ UNCHANGED <<luBuf, luGrown>>
            ELSE /\ luBuf' = luBuf + 1
                 /\ luGrown' = Append(luGrown, luBuf + 1)
                 /\ UNCHANGED <<luPc, luOut>>
       ELSE /\ luPc' = "done"
            /\ luOut' = IF luKind = "get_user_password" /\ r = "EACCES"
                        THEN LookupReturn("Err(The caller does not have permission to access the shadow password file)")
                        ELSE IF r = "found" THEN on_found(luKind)
                        ELSE on_not_found(luKind)
            /\ UNCHANGED <<luBuf, luGrown>>
    /\ UNCHANGED <<luKind, engineVars, loginVars, storeVars, selVars, guiVars, authVars>>

----------------------------------------------------------------------------
(* lib.rs: login and select_user *)

\* Password prompts shown during one login.
MaxPrompts == 3

\* Every variable of the engine but the main thread's position and the account.
engineAtLogin == <<result, failedAt, locks, display, authFile, authCreated,
                   utilFailed, removeFailed, xorgLog, attempts, slept,
                   xdisplay, xinit, alive, signalled, sigState, pending,
                   thread, sigArrived, sigDefault, sigForwarded, sigLost,
                   children>>

\* What User::all() can give: no account, or the accounts of the database.
UserLists == {{}, Accounts}

\* What user.check_password(&password) can come to at lib.rs:54: Ok(true),
\* Ok(false) or an Err.
CheckVerdicts == {"true", "false", "err"}

\* `?` inside login(): the error is returned.
LoginErr ==
    /\ loginPc' = "returned"
    /\ loginResult' = "Err"

\* lib.rs:36-46  User::all(), ensure!(!users.is_empty()), the selection
\* prompt, users[user].clone()
SelectUser(users, account, ok) ==
    /\ pc = "login"
    /\ loginPc = "users"
    /\ IF users = {} \/ ~ok
       THEN /\ LoginErr
            /\ UNCHANGED user
       ELSE /\ account \in users
            /\ user' = account
            /\ loginPc' = "prompt"
            /\ UNCHANGED loginResult
    /\ UNCHANGED <<pc, engineAtLogin, prompts, lastCheck, verified,
                   storeVars, selVars, guiVars, authVars, lookupVars>>

\* lib.rs:48-52  Password::with_theme(..).interact().map(Zeroizing::new)?
PromptPassword(ok) ==
    /\ pc = "login"
    /\ loginPc = "prompt"
    /\ prompts < MaxPrompts
    /\ prompts' = prompts + 1
    /\ lastCheck' = "none"
    /\ IF ok
       THEN /\ loginPc' = "check"
            /\ UNCHANGED loginResult
       ELSE LoginErr
    /\ UNCHANGED <<pc, user, engineAtLogin, verified, storeVars, selVars,
                   guiVars, authVars, lookupVars>>

\* CheckPassword as it would be if a failed check left the loop with the
\* account as well.
CheckPasswordLenient(verdict) ==
    /\ pc = "login"
    /\ loginPc = "check"
    /\ lastCheck' = verdict
    /\ IF verdict = "err"
       THEN /\ LoginErr
            /\ UNCHANGED verified
       ELSE IF verdict = "true"
       THEN /\ verified' = verified \cup {user}
            /\ loginPc' = "desktop"
            /\ UNCHANGED loginResult
       ELSE /\ loginPc' = "desktop"
            /\ UNCHANGED <<verified, loginResult>>
    /\ UNCHANGED <<pc, user, engineAtLogin, prompts, storeVars,
                   selVars, guiVars, authVars, lookupVars>>

\* lib.rs:54-58  if user.check_password(&password)? { break Ok(user) } else
\* { println!("Invalid password!") }: an Err is returned, true leaves the
\* loop with the account, false goes round the loop.
CheckPassword(verdict) ==
    /\ pc = "login"
    /\ loginPc = "check"
    /\ lastCheck' = verdict
    /\ IF verdict = "err"
       THEN /\ LoginErr
            /\ UNCHANGED verified
       ELSE IF verdict = "true"
       THEN /\ verified' = verified \cup {user}
            /\ loginPc' = "desktop"
            /\ UNCHANGED loginResult
       ELSE /\ loginPc' = "prompt"
            /\ UNCHANGED <<verified, loginResult>>
    /\ UNCHANGED <<pc, user, engineAtLogin, prompts, storeVars,
                   selVars, guiVars, authVars, lookupVars>>

\* lib.rs:27  let desktop = select_desktop(&user, &config)?
LoginSelectDesktop(ok) ==
    /\ pc = "login"
    /\ loginPc = "desktop"
    /\ IF ok
       THEN /\ loginPc' = "env"
            /\ UNCHANGED loginResult
       ELSE LoginErr
    /\ UNCHANGED <<pc, user, engineAtLogin, prompts, lastCheck,
                   verified, storeVars, selVars, guiVars, authVars, lookupVars>>

\* lib.rs:28-30  let env = Env::define(&user, &desktop)?; then xorg(..) is
\* entered.
LoginDefineEnv(ok) ==
    /\ pc = "login"
    /\ loginPc = "env"
    /\ IF ok
       THEN /\ loginPc' = "xorg"
            /\ pc' = "alloc"
            /\ UNCHANGED loginResult
       ELSE /\ LoginErr
            /\ UNCHANGED pc
    /\ UNCHANGED <<user, engineAtLogin, prompts, lastCheck, verified,
                   storeVars, selVars, guiVars, authVars, lookupVars>>

\* lib.rs:30-32  xorg(user, desktop, env, config)?; Ok(())
LoginReturn ==
    /\ loginPc = "xorg"
    /\ pc = "returned"
    /\ loginPc' = "returned"
    /\ loginResult' = result
    /\ UNCHANGED <<pc, user, engineAtLogin, prompts, lastCheck,
                   verified, storeVars, selVars, guiVars, authVars, lookupVars>>

----------------------------------------------------------------------------
(* Specifications *)

\* Sets of lock files found at the start of a launch.
LockSets == {{}, {0}, {1}, {0, 1}, {0, 2}, 0..(NumDisplays - 2),
             0..(NumDisplays - 1)}

\* Records found at the path at the start: none, a directory, or a file
\* holding a well-formed line.
InitialNodes ==
    {Absent, Directory, File(<<"a", ";", "X", "o", "r", "g", "nl">>)}

\* What xorg() starts from, its position apart.
EngineAtRest ==
    /\ result = "none"
    /\ failedAt = "none"
    /\ locks \in LockSets
    /\ display = NoDisplay
    /\ authFile = "absent"
    /\ authCreated = FALSE
    /\ utilFailed = {}
    /\ removeFailed = FALSE
    /\ xorgLog = <<>>
    /\ attempts = 0
    /\ slept = 0
    /\ xdisplay = "none"
    /\ xinit = "none"
    /\ alive = {}
    /\ signalled = {}
    /\ sigState = "default"
    /\ pending = 0
    /\ thread = "none"
    /\ sigArrived = 0
    /\ sigDefault = 0
    /\ sigForwarded = 0
    /\ sigLost = 0
    /\ children = {}

EngineInit ==
    /\ pc = "alloc"
    /\ EngineAtRest

SelectIdle ==
    /\ selPc = "idle"
    /\ desktops = <<>>
    /\ autoLogin = None
    /\ lastDesktop = None
    /\ chosen = None
    /\ selBy = "none"

GuiIdle ==
    /\ guiPc = "idle"
    /\ guiIn = None
    /\ guiOut = None
    /\ guiSpawn = None

AuthIdle ==
    /\ authPc = [r \in Runs |-> "idle"]
    /\ authIn = [r \in Runs |-> None]
    /\ authOut = [r \in Runs |-> None]

LookupIdle ==
    /\ luPc = "idle"
    /\ luKind = "none"
    /\ luBuf = 0
    /\ luGrown = <<>>
    /\ luRets = <<>>
    /\ luOut = None

LoginIdle ==
    /\ loginPc = "idle"
    /\ prompts = 0
    /\ lastCheck = "none"
    /\ verified = {}
    /\ loginResult = "none"

StoreIdle ==
    /\ lsPc = "idle"
    /\ ruid = Root.uid
    /\ fsuid = Root.uid
    /\ gid = Root.primary_group
    /\ entryId = [fsuid |-> Root.uid, gid |-> Root.primary_group]
    /\ saveResult = "none"
    /\ savedDesk = None
    /\ loaded = None

\* The launch engine: xorg() from its first statement.
Init ==
    /\ EngineInit
    /\ user \in Accounts
    /\ StoreIdle
    /\ lsNode = [u \in Accounts |-> Absent]
    /\ SelectIdle
    /\ GuiIdle
    /\ AuthIdle
    /\ LookupIdle
    /\ LoginIdle

Next ==
    \/ AllocDisplay
    \/ \E ok \in BOOLEAN : WriteAuth(ok)
    \/ \E ok \in BOOLEAN : ChownAuth(ok)
    \/ \E out \in McookieOutcomes : Mcookie(out)
    \/ \E out \in XauthOutcomes : Xauth(out)
    \/ \E ok \in BOOLEAN : SpawnXorg(ok)
    \/ \E connected \in BOOLEAN : OpenAttempt(connected)
    \/ \E ok \in BOOLEAN : SpawnXinit(ok)
    \/ AbortKill
    \/ AbortWait
    \/ RegisterSignals
    \/ Poll
    \/ WaitXinit
    \/ CloseSignals
    \/ KillXorg
    \/ WaitXorg
    \/ \E ok \in BOOLEAN : RemoveAuth(ok)
    \/ ThreadForward
    \/ ThreadExit
    \/ \E queued \in BOOLEAN : Interrupt(queued)
    \/ SessionExit
    \/ SessionFork
    \/ HelperExit

Spec == Init /\ [][Next]_vars

\* The launch engine with a main thread that keeps running: every call of
\* XOpenDisplay and every sleep of XDisplay::open returns.
FairSpec == Spec /\ WF_vars(\E connected \in BOOLEAN : OpenAttempt(connected))


\* The last-session store: one save followed by one load.
StoreInit ==
    /\ EngineInit
    /\ locks = {}
    /\ user \in Accounts
    /\ StoreIdle
    /\ lsNode \in [Accounts -> InitialNodes]
    /\ SelectIdle
    /\ GuiIdle
    /\ AuthIdle
    /\ LookupIdle
    /\ LoginIdle

StoreNext ==
    \/ \E usr \in Accounts, desktop \in Desktops, mkdirOk, chmodOk \in BOOLEAN :
           SetLastSession(usr, desktop, mkdirOk, chmodOk)
    \/ GetLastSession

StoreSpec == StoreInit /\ [][StoreNext]_vars

\* Session commands, enumerated sessions and auto-login settings of the
\* selection.
SelExecs == {<<"a">>, <<"b">>, <<"a", "b">>}
SelDesktops == [exec : SelExecs, env : Environments]
\* Most sessions Desktop::all() enumerates.
MaxDesktops == 2
DesktopLists == UNION {[1..n -> SelDesktops] : n \in 0..MaxDesktops}
AutoLogins == {None, SomeString(<<"a">>), SomeString(<<" ", "b", " ">>),
               SomeString(<<"z">>)}

\* select_desktop for one account: the record found is none, a directory or
\* the line of one of the sessions.
SelectInit ==
    /\ EngineInit
    /\ locks = {}
    /\ user \in Accounts
    /\ StoreIdle
    /\ \E node \in {Absent, Directory}
                   \cup {File(FormatRecord(d)) : d \in SelDesktops} :
           lsNode = [u \in Accounts |-> IF u = user THEN node ELSE Absent]
    /\ selPc = "idle"
    /\ desktops \in DesktopLists
    /\ autoLogin \in AutoLogins
    /\ lastDesktop = None
    /\ chosen = None
    /\ selBy = "none"
    /\ GuiIdle
    /\ AuthIdle
    /\ LookupIdle
    /\ LoginIdle

SelectNext ==
    \/ LookUpLastDesktop
    \/ \E mkdirOk, chmodOk \in BOOLEAN : AutoLogin(mkdirOk, chmodOk)
    \/ \E selection \in 1..MaxDesktops, promptOk \in BOOLEAN :
           Interactive(selection, promptOk)

SelectSpec == SelectInit /\ [][SelectNext]_vars

\* prepare_gui_command on every session command, launch type and account
\* with or without ~/.xinitrc.
GuiInit ==
    /\ EngineInit
    /\ locks = {}
    /\ user \in Accounts
    /\ StoreIdle
    /\ lsNode = [u \in Accounts |-> Absent]
    /\ SelectIdle
    /\ guiPc = "idle"
    /\ guiIn \in [exec : GuiStrings, launch_type : LaunchTypes,
                  has_xinitrc : BOOLEAN]
    /\ guiOut = None
    /\ guiSpawn = None
    /\ AuthIdle
    /\ LookupIdle
    /\ LoginIdle

GuiNext ==
    \/ PrepareGuiCommand
    \/ \E started \in BOOLEAN : SpawnGui(started)

GuiSpec == GuiInit /\ [][GuiNext]_vars

\* auth_password on every pair of candidate password and shadow entry, twice.
AuthInit ==
    /\ EngineInit
    /\ locks = {}
    /\ user \in Accounts
    /\ StoreIdle
    /\ lsNode = [u \in Accounts |-> Absent]
    /\ SelectIdle
    /\ GuiIdle
    /\ authPc = [r \in Runs |-> "idle"]
    /\ authIn \in [Runs -> [password : Passwords, shadow : ShadowEntries]]
    /\ authOut = [r \in Runs |-> None]
    /\ LookupIdle
    /\ LoginIdle

AuthNext == \E r \in Runs : AuthPassword(r)

AuthSpec == AuthInit /\ [][AuthNext]_vars

\* Each of the three lookups against a backing call that may return anything
\* on every call.
LookupInit ==
    /\ EngineInit
    /\ locks = {}
    /\ user \in Accounts
    /\ StoreIdle
    /\ lsNode = [u \in Accounts |-> Absent]
    /\ SelectIdle
    /\ GuiIdle
    /\ AuthIdle
    /\ LookupIdle
    /\ LoginIdle

LookupNext ==
    \/ \E kind \in Lookups : LookupStart(kind)
    \/ \E r \in BackingReturns : LookupCall(r)

LookupSpec == LookupInit /\ [][LookupNext]_vars

\* login() from its first statement, with the engine it ends in.
LoginInit ==
    /\ pc = "login"
    /\ EngineAtRest
    /\ locks = {}
    /\ user = None
    /\ StoreIdle
    /\ lsNode = [u \in Accounts |-> Absent]
    /\ SelectIdle
    /\ GuiIdle
    /\ AuthIdle
    /\ LookupIdle
    /\ loginPc = "users"
    /\ prompts = 0
    /\ lastCheck = "none"
    /\ verified = {}
    /\ loginResult = "none"

LoginNext ==
    \/ \E users \in UserLists, account \in Accounts, ok \in BOOLEAN :
           SelectUser(users, account, ok)
    \/ \E ok \in BOOLEAN : PromptPassword(ok)
    \/ \E verdict \in CheckVerdicts : CheckPassword(verdict)
    \/ \E ok \in BOOLEAN : LoginSelectDesktop(ok)
    \/ \E ok \in BOOLEAN : LoginDefineEnv(ok)
    \/ LoginReturn
    \/ Next

LoginSpec == LoginInit /\ [][LoginNext]_vars

----------------------------------------------------------------------------
(* Properties *)

Count(log, e) == Cardinality({i \in 1..Len(log) : log[i] = e})

ServerSpawned == xorgLog # <<>>
ServerReaped == xorgLog = <<"spawn", "kill", "wait">>

\* C1: once the server was spawned, whatever happens afterwards (the session
\* exits, the probe or the session start fails, a termination signal arrives
\* in any phase), the server is sent a termination request and waited on,
\* each exactly once: never twice at any time, and never less when the
\* engine has come to its end.
C1_ServerTerminatedOnce ==
    /\ Count(xorgLog, "kill") <= 1
    /\ Count(xorgLog, "wait") <= 1
    /\ (pc \in Terminal /\ ServerSpawned) => ServerReaped

\* C2: when xorg() has returned because the readiness probe made all its
\* attempts in vain or the session command could not be spawned, it returned
\* an error, and by then the server was sent one termination request and was
\* then waited on once.
C2_AbortReapsServer ==
    (pc = "returned" /\ failedAt \in {"open", "spawn_xinit"})
        => (result = "Err" /\ ServerReaped)

\* C2, its case: the probe failed 50 times and xorg() has returned.
C2_ProbeExhaustedReturned ==
    /\ pc = "returned"
    /\ failedAt = "open"
    /\ attempts = OpenAttempts
    /\ result = "Err"

\* C3: no termination signal that arrives once the server was spawned is
\* left to its default disposition.
C3_InterruptIntercepted ==
    ServerSpawned => sigDefault = 0

\* C4: each time the forwarding thread forwards a signal, every process of
\* the session's process group is sent the termination request.
C4_GroupSignalled ==
    [][sigForwarded' # sigForwarded => alive \subseteq signalled']_vars

\* C5: when xorg() has returned after the authority file was created, the
\* authority file is gone.
C5_AuthFileRemoved ==
    (pc = "returned" /\ authCreated) => authFile = "absent"

\* C6: when removing the authority file failed at the end of a completed
\* cycle, xorg() has returned success.
C6_RemovalErrorSwallowed ==
    (pc = "returned" /\ removeFailed) => result = "Ok"

\* C7: once mcookie or xauth could not be started or exited with a failure
\* status, the server is never spawned and xorg() returns an error.
C7_UtilityFailureAborts ==
    (utilFailed # {} \/ failedAt \in {"mcookie", "xauth"})
        => (~ServerSpawned /\ (pc = "returned" => result = "Err"))

\* C8: xorg() has returned success only if the session process was spawned,
\* the server was sent its termination request and then waited on, and no
\* step before that failed.
C8_SuccessOnlyWhenComplete ==
    result = "Ok"
        => (xinit # "none" /\ ServerReaped /\ utilFailed = {}
            /\ failedAt = "none")

\* C9: after set_last_session returned, by whichever path, the filesystem
\* identity of the process is the one it had on entry.
C9_IdentityRestored ==
    lsPc # "idle" => [fsuid |-> fsuid, gid |-> gid] = entryId

\* C10: a record saved by set_last_session and loaded at once by
\* get_last_session for the same account has the command and the tag saved.
C10_RoundTrip ==
    (lsPc = "loaded" /\ saveResult = "Ok")
        => loaded = Some(savedDesk.desktop.exec, savedDesk.desktop.env)

\* Positions of the main thread from the polling loop to the last statement.
AfterSessionStart ==
    {"poll", "wait_xinit", "close_signals", "kill_xorg", "wait_xorg",
     "remove_auth"}

\* C13, as claimed: the connection the readiness probe opened is closed
\* before the engine leaves StartingSession: it is closed whenever the engine
\* polls the session or shuts the server down.
C13_ClosedBeforeSupervising ==
    pc \in AfterSessionStart => xdisplay = "closed"

\* C13, amended: the connection the readiness probe opened stays open while
\* the engine polls the session and shuts the server down, and is closed
\* when xorg() returns; when the session could not be spawned it is closed
\* before the server is sent its termination request.
C13_ClosedWhenXorgReturns ==
    /\ pc \in AfterSessionStart => xdisplay = "open"
    /\ pc = "returned" => xdisplay # "open"
    /\ pc \in {"abort_kill", "abort_wait"} => xdisplay # "open"

\* C13, its case: a whole cycle ran and the connection is closed.
C13_CycleDoneDisplayClosed ==
    pc = "returned" /\ result = "Ok" /\ xdisplay = "closed"

AllLocked == \A i \in 0..(NumDisplays - 1) : i \in locks

\* C14: the display chosen is the smallest index in 0..31 without a lock
\* file; none is chosen exactly when all 32 lock files exist, and then xorg()
\* has failed with nothing created; and a second call of find_free_xdisplay
\* with the lock files unchanged gives the index the first call gave.
C14_SmallestFreeDisplay ==
    /\ display # NoDisplay =>
          /\ display \in 0..(NumDisplays - 1)
          /\ display \notin locks
          /\ \A j \in 0..(display - 1) : j \in locks
    /\ (pc = "returned" /\ display = NoDisplay) =>
          /\ AllLocked
          /\ failedAt = "alloc" /\ result = "Err"
          /\ children = {} /\ xorgLog = <<>> /\ ~authCreated
    /\ AllLocked => display = NoDisplay
    /\ pc = "returned" => find_free_xdisplay(locks) = display

\* C14, its case: displays 0 and 2 are locked, 1 was chosen.
C14_HoleChosen ==
    locks = {0, 2} /\ display = 1 /\ pc = "returned"

\* C20: mcookie, xauth and the session command are created with the uid and
\* gid of the account and with the Launch Environment, never with the
\* operator's uid; the server alone is created with no uid or gid set, and
\* with the operator's identity and environment.
C20_ChildrenIdentity ==
    \A c \in children :
        IF c.kind = "Xorg"
        THEN ~c.setid /\ c.uid = ruid /\ c.env = "operator"
        ELSE /\ c.setid
             /\ c.uid = user.uid /\ c.gid = user.primary_group
             /\ c.env = "launch"
             /\ c.uid # ruid

\* C20, its case: all four kinds of children were created in one launch.
C20_AllChildrenCreated ==
    {c.kind : c \in children} = {"mcookie", "xauth", "Xorg", "session"}

\* C11: when the stored record is the line `<command>;<tag>` of a session,
\* get_last_desktop returns that session if it is in the list and none if
\* it is not.
C11_LastDesktopMatches ==
    selPc = "looked" =>
        \A d \in SelDesktops :
            lsNode[user] = File(FormatRecord(d)) =>
                lastDesktop = IF \E i \in 1..Len(desktops) : desktops[i] = d
                              THEN SomeDesktop(d) ELSE None

\* The record at the path is the line of desktop d.
RecordIs(node, d) == node = File(FormatRecord(d))

\* C12: when select_desktop returns a session that differs from the stored
\* record (or none is stored), by auto-login or by the prompt, the record
\* then holds the session chosen.
C12_RecordUpdated ==
    [][(selPc = "looked" /\ selPc' = "done" /\ chosen'.some
          /\ ~RecordIs(lsNode[user], chosen'.desktop))
        => RecordIs(lsNode'[user], chosen'.desktop)]_vars

\* The words of the session command handed to prepare_gui_command.
GuiWords == split_spaces(guiIn.exec)

\* C15, as claimed: the command is wrapped in a login shell running the
\* script whenever the launch type is XInitRc and the account has the script;
\* it is prefixed with dbus-launch when the launch type is DBus; in every
\* other case it is the first word as program and the rest as arguments.
C15_RuleAsClaimed ==
    guiPc # "idle" =>
        IF guiIn.launch_type = "XInitRc" /\ guiIn.has_xinitrc
        THEN guiOut = GuiOk(Bash, <<LoginFlag, HomeXinitrc>> \o GuiWords)
        ELSE IF guiIn.launch_type = "DBus"
        THEN guiOut = GuiOk(DbusLaunch, GuiWords)
        ELSE guiOut = GuiOk(GuiWords[1], SubSeq(GuiWords, 2, Len(GuiWords)))

\* C15, amended: the command is wrapped when the launch type is XInitRc, the
\* account has the script and no word of the command is ".xinitrc"; failing
\* that it is prefixed with dbus-launch when the launch type is DBus; in
\* every other case it is the first word as program and the rest as arguments.
C15_RuleWithXinitrcWord ==
    guiPc # "idle" =>
        LET wrapped == /\ guiIn.launch_type = "XInitRc"
                       /\ guiIn.has_xinitrc
                       /\ \A i \in 1..Len(GuiWords) : GuiWords[i] # DotXinitrc
        IN  /\ guiOut.ok
            /\ wrapped =>
                  /\ guiOut.bin = Bash
                  /\ guiOut.args = <<LoginFlag, HomeXinitrc>> \o GuiWords
            /\ (~wrapped /\ guiIn.launch_type = "DBus") =>
                  /\ guiOut.bin = DbusLaunch
                  /\ guiOut.args = GuiWords
            /\ (~wrapped /\ guiIn.launch_type # "DBus") =>
                  /\ <<guiOut.bin>> \o guiOut.args = GuiWords

\* C15, its case: XInitRc, the account has the script, the command names
\* ".xinitrc" itself, and the command was taken verbatim.
C15_XinitrcWordVerbatim ==
    /\ guiPc = "prepared"
    /\ guiIn.launch_type = "XInitRc"
    /\ guiIn.has_xinitrc
    /\ guiIn.exec = <<"a", " ", ".xinitrc">>
    /\ guiOut = GuiOk(<<"a">>, <<DotXinitrc>>)

\* C16: for an empty session command prepare_gui_command fails with the
\* invalid-definition error ("Empty exec"), and no program with an empty name
\* is handed to Command::spawn.
C16_EmptyCommandRejected ==
    /\ (guiPc # "idle" /\ guiIn.exec = <<>>) =>
           (~guiOut.ok /\ guiSpawn = None)
    /\ guiPc = "spawned" => guiSpawn.bin # <<>>

\* C17: for an account with a shadow record auth_password returns true
\* exactly when crypt of the candidate under the stored credential gives the
\* stored credential, returns false for every other candidate, and returns
\* false when crypt gives a null pointer or the shadow lookup fails; it
\* returns for every candidate.
C17_AuthPasswordDecides ==
    \A r \in Runs :
        authPc[r] = "done" =>
            /\ authOut[r].kind = "return"
            /\ authIn[r].shadow.kind = "record" =>
                   authOut[r].value =
                       (crypt(authIn[r].password, authIn[r].shadow.pwdp)
                            = authIn[r].shadow.pwdp)
            /\ authIn[r].shadow.kind # "record" => authOut[r].value = FALSE

\* C18: two calls with the same candidate, one for an account whose shadow
\* record is missing and one for an account whose record the candidate does
\* not match, return the same value and write the same output.
C18_MissingAndWrongAlike ==
    \A r1, r2 \in Runs :
        ( /\ authPc[r1] = "done"
          /\ authPc[r2] = "done"
          /\ authIn[r1].password = authIn[r2].password
          /\ authIn[r1].shadow = ShadowMissing
          /\ authIn[r2].shadow.kind = "record"
          /\ crypt(authIn[r2].password, authIn[r2].shadow.pwdp)
                 # authIn[r2].shadow.pwdp )
        => authOut[r1] = authOut[r2]

\* C19: in each of the three lookups every growth of the buffer doubles it
\* and follows a call that reported ERANGE, the loop is left on the first
\* other return, and when the buffer cannot be doubled any further the lookup
\* returns a failure that differs from what it returns for "not found".
C19_DoubleOrFailDistinctly ==
    /\ \A i \in 1..Len(luGrown) : luGrown[i] = InitialBufLog + i
    /\ luPc # "idle" => luBuf = InitialBufLog + Len(luGrown)
    /\ \A i \in 1..Len(luRets) :
           (i < Len(luRets) \/ luPc = "loop") => luRets[i] = "ERANGE"
    /\ (luPc = "done" /\ luRets[Len(luRets)] # "ERANGE") =>
           Len(luGrown) = Len(luRets) - 1
    /\ (luPc = "done" /\ luRets[Len(luRets)] = "ERANGE") =>
           /\ luOut.kind = "return"
           /\ luOut # on_not_found(luKind)
           /\ luOut # on_found(luKind)

\* The phase of spec section 4.4 the main thread is in: 1 AllocatingDisplay,
\* 2 GeneratingAuthority, 3 StartingServer, 4 AwaitingServerReady,
\* 5 StartingSession, 6 Supervising, 7 ShuttingDown, 8 Done, 9 Aborting.
PhaseOf(p) ==
    CASE p = "alloc" -> 1
      [] p \in {"write_auth", "chown_auth", "mcookie", "xauth"} -> 2
      [] p = "spawn_xorg" -> 3
      [] p = "open" -> 4
      [] p = "spawn_xinit" -> 5
      [] p \in {"register", "poll", "wait_xinit", "close_signals"} -> 6
      [] p \in {"kill_xorg", "wait_xorg"} -> 7
      [] p \in {"remove_auth", "returned"} -> 8
      [] OTHER -> 9

\* C21: while nothing has failed, every step of the engine stays in its phase
\* or enters the next one; once the server is spawned the authority utility
\* has bound the cookie (it did not exit with a failure); once the session
\* process is spawned a client connection to the display had succeeded; and
\* once the server is sent its termination request with nothing having
\* failed, the session process is gone and reaped.
C21_PhasesInOrder ==
    [][ /\ (failedAt' = "none" /\ pc' # "killed") =>
               PhaseOf(pc') \in {PhaseOf(pc), PhaseOf(pc) + 1}
        /\ ServerSpawned' => "xauth" \notin utilFailed'
        /\ xinit' # "none" => xdisplay' # "none"
        /\ (Count(xorgLog', "kill") > 0 /\ failedAt' = "none") =>
               (xinit' = "reaped" /\ XinitPid \notin alive')
      ]_vars

\* C22: XDisplay::open ends; it makes at most 50 attempts; it sleeps the same
\* delay after every failed attempt; once an attempt has connected no further
\* attempt is made; and it fails exactly when 50 attempts have failed.
C22_OpenTerminates ==
    /\ [](/\ attempts <= OpenAttempts
          /\ slept = attempts * OpenDelayMs
          /\ pc = "open" => (xdisplay = "none" /\ attempts < OpenAttempts)
          /\ xdisplay # "none" => attempts < OpenAttempts
          /\ failedAt = "open" <=> attempts = OpenAttempts)
    /\ [][xdisplay # "none" => attempts' = attempts]_vars
    /\ (pc = "open") ~> (pc # "open")

\* C22, its case: the 50th attempt connected, after 49 failed ones.
C22_ConnectedAtLastAttempt ==
    /\ xdisplay = "open"
    /\ attempts = OpenAttempts - 1
    /\ pc = "spawn_xinit"

\* C23: whenever the forwarding thread forwards an interrupt with
\* kill_process(xinit_id), the session child has been spawned and the main
\* thread has not yet reaped it.
C23_ForwardOnlyToUnreaped ==
    [][sigForwarded' > sigForwarded => xinit = "spawned"]_vars

\* C24: select_user has returned an account only if a password check for it
\* returned true; a display is allocated or a process created only for such
\* an account; and after a check that returned false login() is at the
\* password prompt again, has not returned, and nothing was allocated or
\* created.
C24_VerifiedBeforeLaunch ==
    /\ loginPc \in {"desktop", "env", "xorg"} => user \in verified
    /\ (display # NoDisplay \/ children # {} \/ xorgLog # <<>>) =>
           user \in verified
    /\ lastCheck = "false" =>
           /\ loginPc = "prompt"
           /\ loginResult = "none"
           /\ display = NoDisplay
           /\ children = {}

\* C24, its case: every prompt but the last was answered with a wrong
\* password, the last one with the right one, and the display was allocated.
C24_LaunchedAfterRetries ==
    /\ prompts = MaxPrompts
    /\ lastCheck = "true"
    /\ display # NoDisplay
    /\ children # {}

====
